---------------------------- MODULE Spec2Model ----------------------------
(***************************************************************************)
(* A model of coinbaseadvanced: the REST client of client.py (request      *)
(* path and query assembly, request signing, the outbound request) and the *)
(* response mappers of models/products.py and models/fees.py.              *)
(*                                                                         *)
(* Python strings are TLA+ strings (TLC evaluates \o, Len and SubSeq on    *)
(* them character by character).  An optional argument is None (the empty  *)
(* tuple) or <<v>>.                                                        *)
(***************************************************************************)
EXTENDS Integers, Sequences, FiniteSets, TLC

VARIABLES
    api_key,      \* self._api_key
    secret_key,   \* self._secret_key
    clock,        \* the wall clock, in ticks of 1/TicksPerSecond seconds
    pc,           \* position of the current client call
    call,         \* the operation called and its arguments
    sign_in,      \* what _build_request_headers was given, and the clock it read
    request,      \* the request handed to requests.get / requests.post
    n_sent,       \* outbound HTTP requests issued by the current call
    response,     \* the requests.Response handed to the mapper
    result,       \* what the call gave its caller
    iterated      \* what iterating the page the call gave has yielded

vars == <<api_key, secret_key, clock, pc, call, sign_in, request, n_sent,
          response, result, iterated>>

-----------------------------------------------------------------------------
(* Bounds of the model *)

\* ticks of the clock per second (time.time() has a fractional part)
TicksPerSecond == 2
\* the clock at construction, in ticks: 9.5 s, so the timestamp grows a digit
ClockStart == 19
\* how many ticks the clock is followed
MaxTicks == 1

-----------------------------------------------------------------------------
(* Python values *)

None == <<>>

Some(v) == <<v>>

Digits == "0123456789"

\* str(n) of a non-negative int: its decimal digits
RECURSIVE IntToStr(_)
IntToStr(n) ==
    IF n < 10 THEN SubSeq(Digits, n + 1, n + 1)
    ELSE IntToStr(n \div 10) \o SubSeq(Digits, (n % 10) + 1, (n % 10) + 1)

\* str(x) of an optional int: str(None) is "None"
PyStr(x) == IF x = None THEN "None" ELSE IntToStr(x[1])

\* a decimal field of strftime, zero-padded to w digits
RECURSIVE ZeroPad(_, _)
ZeroPad(s, w) == IF Len(s) >= w THEN s ELSE ZeroPad("0" \o s, w)

\* datetime.strftime("%Y-%m-%dT%H:%M:%SZ")
strftime(d) ==
    ZeroPad(IntToStr(d.year), 4) \o "-" \o ZeroPad(IntToStr(d.month), 2) \o "-"
    \o ZeroPad(IntToStr(d.day), 2) \o "T" \o ZeroPad(IntToStr(d.hour), 2) \o ":"
    \o ZeroPad(IntToStr(d.minute), 2) \o ":" \o ZeroPad(IntToStr(d.second), 2) \o "Z"

\* days from 1970-01-01 to the civil date y-m-d (proleptic Gregorian)
DaysFromCivil(y, m, d) ==
    LET yy  == IF m <= 2 THEN y - 1 ELSE y
        era == yy \div 400
        yoe == yy - era * 400
        mp  == IF m > 2 THEN m - 3 ELSE m + 9
        doy == (153 * mp + 2) \div 5 + d - 1
        doe == yoe * 365 + yoe \div 4 - yoe \div 100 + doy
    IN  era * 146097 + doe - 719468

\* int(datetime.timestamp()) of a naive datetime, the local zone being UTC
datetime_timestamp(d) ==
    DaysFromCivil(d.year, d.month, d.day) * 86400
    + d.hour * 3600 + d.minute * 60 + d.second

\* sep.join(seq)
RECURSIVE join(_, _)
join(sep, seq) ==
    IF Len(seq) = 0 THEN ""
    ELSE IF Len(seq) = 1 THEN seq[1]
    ELSE seq[1] \o sep \o join(sep, Tail(seq))


-----------------------------------------------------------------------------
(* JSON: Python's dict / list / str / int / bool / None as tagged values,   *)
(* a dict being the sequence of its <<key, value>> items in insertion order *)

JStr(s) == [t |-> "str", v |-> s]

JInt(n) == [t |-> "int", v |-> n]

JBool(b) == [t |-> "bool", v |-> b]

JNull == [t |-> "null", v |-> 0]

JList(items) == [t |-> "list", v |-> items]

JObj(items) == [t |-> "dict", v |-> items]

\* the keys of a dict, in order
Keys(o) == [i \in 1..Len(o.v) |-> o.v[i][1]]

HasKey(o, k) == \E i \in 1..Len(o.v) : o.v[i][1] = k

\* o[k]: the value of the last item with key k
Get(o, k) ==
    LET i == CHOOSE j \in 1..Len(o.v) :
                 o.v[j][1] = k /\ \A h \in (j + 1)..Len(o.v) : o.v[h][1] # k
    IN  o.v[i][2]

\* the body of a JSON string: " and \ are escaped
RECURSIVE EscapeStr(_)
EscapeStr(s) ==
    IF s = "" THEN ""
    ELSE LET c == SubSeq(s, 1, 1)
             e == IF c = "\"" THEN "\\\"" ELSE IF c = "\\" THEN "\\\\" ELSE c
         IN  e \o EscapeStr(SubSeq(s, 2, Len(s)))

RECURSIVE JsonDumps(_)
\* the items of a list or dict from the i-th on, separated by ", "
RECURSIVE DumpItems(_, _, _)
DumpItems(items, i, isDict) ==
    IF i > Len(items) THEN ""
    ELSE (IF isDict
            THEN "\"" \o EscapeStr(items[i][1]) \o "\": " \o JsonDumps(items[i][2])
            ELSE JsonDumps(items[i]))
         \o (IF i < Len(items) THEN ", " ELSE "")
         \o DumpItems(items, i + 1, isDict)

\* json.dumps(v) with the default separators
JsonDumps(x) ==
    CASE x.t = "str"  -> "\"" \o EscapeStr(x.v) \o "\""
      [] x.t = "int"  -> IF x.v < 0 THEN "-" \o IntToStr(0 - x.v) ELSE IntToStr(x.v)
      [] x.t = "bool" -> IF x.v THEN "true" ELSE "false"
      [] x.t = "null" -> "null"
      [] x.t = "list" -> "[" \o DumpItems(x.v, 1, FALSE) \o "]"
      [] x.t = "dict" -> "{" \o DumpItems(x.v, 1, TRUE) \o "}"


-----------------------------------------------------------------------------
(* client.py: CoinbaseAdvancedTradeAPIClient *)

\* the default of __init__'s base_url
base_url == "https://api.coinbase.com"

\* hmac.new(key, message, sha256).digest().hex(): the digest is kept as the
\* term of its key and message, so two digests are equal exactly when both
\* are (HMAC-SHA256 taken as collision-free)
HmacSha256Hex(key, message) == <<"hmac-sha256-hex", key, message>>

_create_signature(message) == HmacSha256Hex(secret_key, message)

\* int(time.time()) at the moment of the call
UnixSeconds == clock \div TicksPerSecond

\* _build_request_headers with the method put before the timestamp
_build_request_headers_reordered(method, request_path, body) ==
    LET timestamp == IntToStr(UnixSeconds)
        message   == method \o timestamp \o request_path \o body
        signature == _create_signature(message)
    IN  [h \in {"accept", "CB-ACCESS-KEY", "CB-ACCESS-TIMESTAMP", "CB-ACCESS-SIGN"} |->
            CASE h = "accept"              -> "application/json"
              [] h = "CB-ACCESS-KEY"       -> api_key
              [] h = "CB-ACCESS-TIMESTAMP" -> timestamp
              [] h = "CB-ACCESS-SIGN"      -> signature]

\* _build_request_headers with a header timestamp that is not the signed one
\* (the clock's ticks, not cut to whole seconds)
_build_request_headers_two_timestamps(method, request_path, body) ==
    LET timestamp == IntToStr(UnixSeconds)
        message   == timestamp \o method \o request_path \o body
        signature == _create_signature(message)
    IN  [h \in {"accept", "CB-ACCESS-KEY", "CB-ACCESS-TIMESTAMP", "CB-ACCESS-SIGN"} |->
            CASE h = "accept"              -> "application/json"
              [] h = "CB-ACCESS-KEY"       -> api_key
              [] h = "CB-ACCESS-TIMESTAMP" -> IntToStr(clock)
              [] h = "CB-ACCESS-SIGN"      -> signature]

_build_request_headers(method, request_path, body) ==
    LET timestamp == IntToStr(UnixSeconds)
        message   == timestamp \o method \o request_path \o body
        signature == _create_signature(message)
    IN  [h \in {"accept", "CB-ACCESS-KEY", "CB-ACCESS-TIMESTAMP", "CB-ACCESS-SIGN"} |->
            CASE h = "accept"              -> "application/json"
              [] h = "CB-ACCESS-KEY"       -> api_key
              [] h = "CB-ACCESS-TIMESTAMP" -> timestamp
              [] h = "CB-ACCESS-SIGN"      -> signature]

_next_param(query_params) ==
    query_params \o (IF query_params = "" THEN "?" ELSE "&")

\* Prepared with the query string signed along with the path
Prepared_signing_query(method, request_path, query_params, body, json, mapper) ==
    [method       |-> method,
     request_path |-> request_path,
     query_params |-> query_params,
     sign         |-> [method |-> method, request_path |-> request_path \o query_params,
                       body |-> body],
     url          |-> base_url \o request_path \o query_params,
     json         |-> json,
     mapper       |-> mapper]

\* What an operation does up to its requests.get / requests.post: the
\* arguments it gives _build_request_headers (sign), the URL and the json
\* payload it gives requests, and the mapper it hands the response to.
Prepared(method, request_path, query_params, body, json, mapper) ==
    [method       |-> method,
     request_path |-> request_path,
     query_params |-> query_params,
     sign         |-> [method |-> method, request_path |-> request_path, body |-> body],
     url          |-> base_url \o request_path \o query_params,
     json         |-> json,
     mapper       |-> mapper]

list_accounts(limit, cursor) ==
    LET request_path == "/api/v3/brokerage/accounts"
        q0 == "?limit=" \o PyStr(limit)
        q1 == IF cursor # None THEN q0 \o "&cursor=" \o cursor[1] ELSE q0
    IN  Prepared("GET", request_path, q1, "", None, "AccountsPage")

get_account(account_id) ==
    LET request_path == "/api/v3/brokerage/accounts/" \o account_id
    IN  Prepared("GET", request_path, "", "", None, "Account")

\* create_order signing the order configuration instead of the payload it sends
create_order_signing_configuration(client_order_id, product_id, side, order_configuration) ==
    LET request_path == "/api/v3/brokerage/orders"
        payload == JObj(<< <<"client_order_id", JStr(client_order_id)>>,
                           <<"product_id", JStr(product_id)>>,
                           <<"side", JStr(side)>>,
                           <<"order_configuration", order_configuration>> >>)
    IN  Prepared("POST", request_path, "", JsonDumps(order_configuration), Some(payload),
                 "Order.create")

create_order(client_order_id, product_id, side, order_configuration) ==
    LET request_path == "/api/v3/brokerage/orders"
        payload == JObj(<< <<"client_order_id", JStr(client_order_id)>>,
                           <<"product_id", JStr(product_id)>>,
                           <<"side", JStr(side)>>,
                           <<"order_configuration", order_configuration>> >>)
    IN  Prepared("POST", request_path, "", JsonDumps(payload), Some(payload), "Order.create")

\* str(x) of a price or size the caller gives as a str or as an int
str(x) == IF x.t = "str" THEN x.v ELSE IntToStr(x.v)

create_buy_market_order(client_order_id, product_id, quote_size) ==
    LET order_configuration ==
            JObj(<< <<"market_market_ioc",
                      JObj(<< <<"quote_size", JStr(str(quote_size))>> >>)>> >>)
    IN  create_order(client_order_id, product_id, "BUY", order_configuration)

create_sell_market_order(client_order_id, product_id, base_size) ==
    LET order_configuration ==
            JObj(<< <<"market_market_ioc",
                      JObj(<< <<"base_size", JStr(str(base_size))>> >>)>> >>)
    IN  create_order(client_order_id, product_id, "SELL", order_configuration)

\* create_limit_order putting the order under the good-till-canceled key
\* whether or not it has an end time
create_limit_order_always_gtc(client_order_id, product_id, side, limit_price, base_size, cancel_time, post_only) ==
    LET c0 == << <<"limit_price", JStr(str(limit_price))>>,
                 <<"base_size", JStr(str(base_size))>> >>
        c1 == IF post_only # None THEN Append(c0, <<"post_only", JBool(post_only[1])>>) ELSE c0
        c2 == IF cancel_time # None
                THEN Append(c1, <<"end_time", JStr(strftime(cancel_time[1]))>>)
                ELSE c1
        order_configuration == JObj(<< <<"limit_limit_gtc", JObj(c2)>> >>)
    IN  create_order(client_order_id, product_id, side, order_configuration)

create_limit_order(client_order_id, product_id, side, limit_price, base_size, cancel_time, post_only) ==
    LET c0 == << <<"limit_price", JStr(str(limit_price))>>,
                 <<"base_size", JStr(str(base_size))>> >>
        c1 == IF post_only # None THEN Append(c0, <<"post_only", JBool(post_only[1])>>) ELSE c0
        limit_order_configuration ==
            IF cancel_time # None
              THEN Append(c1, <<"end_time", JStr(strftime(cancel_time[1]))>>)
              ELSE c1
        order_configuration ==
            IF cancel_time # None
              THEN JObj(<< <<"limit_limit_gtd", JObj(limit_order_configuration)>> >>)
              ELSE JObj(<< <<"limit_limit_gtc", JObj(limit_order_configuration)>> >>)
    IN  create_order(client_order_id, product_id, side, order_configuration)

create_stop_limit_order(client_order_id, product_id, side, stop_price, stop_direction, limit_price, base_size, cancel_time) ==
    LET c0 == << <<"stop_price", JStr(str(stop_price))>>,
                 <<"limit_price", JStr(str(limit_price))>>,
                 <<"base_size", JStr(str(base_size))>>,
                 <<"stop_direction", JStr(stop_direction)>> >>
        stop_limit_order_configuration ==
            IF cancel_time # None
              THEN Append(c0, <<"end_time", JStr(strftime(cancel_time[1]))>>)
              ELSE c0
        order_configuration ==
            IF cancel_time # None
              THEN JObj(<< <<"stop_limit_stop_limit_gtd",
                             JObj(stop_limit_order_configuration)>> >>)
              ELSE JObj(<< <<"stop_limit_stop_limit_gtc",
                             JObj(stop_limit_order_configuration)>> >>)
    IN  create_order(client_order_id, product_id, side, order_configuration)

cancel_orders(order_ids) ==
    LET request_path == "/api/v3/brokerage/orders/batch_cancel/"
        payload == JObj(<< <<"order_ids", JList([i \in 1..Len(order_ids) |-> JStr(order_ids[i])])>> >>)
    IN  Prepared("POST", request_path, "", JsonDumps(payload), Some(payload),
                 "OrderBatchCancellation")

list_orders(product_id, order_status, limit, start_date, end_date, user_native_currency, order_type, order_side, cursor, product_type) ==
    LET request_path == "/api/v3/brokerage/orders/historical/batch"
        q0  == ""
        q1  == IF product_id # None
                 THEN _next_param(q0) \o "product_id=" \o product_id[1] ELSE q0
        q2  == IF order_status # None
                 THEN _next_param(q1) \o "order_status=" \o join(",", order_status[1]) ELSE q1
        q3  == IF limit # None
                 THEN _next_param(q2) \o "limit=" \o PyStr(limit) ELSE q2
        q4  == IF start_date # None
                 THEN _next_param(q3) \o "start_date=" \o strftime(start_date[1]) ELSE q3
        q5  == IF end_date # None
                 THEN _next_param(q4) \o "end_date=" \o strftime(end_date[1]) ELSE q4
        q6  == IF user_native_currency # None
                 THEN _next_param(q5) \o "user_native_currency=" \o user_native_currency[1]
                 ELSE q5
        q7  == IF order_type # None
                 THEN _next_param(q6) \o "order_type=" \o order_type[1] ELSE q6
        q8  == IF order_side # None
                 THEN _next_param(q7) \o "order_side=" \o order_side[1] ELSE q7
        q9  == IF cursor # None
                 THEN _next_param(q8) \o "cursor=" \o cursor[1] ELSE q8
        q10 == IF product_type # None
                 THEN _next_param(q9) \o "product_type=" \o product_type[1] ELSE q9
    IN  Prepared("GET", request_path, q10, "", None, "OrdersPage")

\* list_fills emitting limit last, where its def declares it
list_fills_declared_order(order_id, product_id, start_date, end_date, cursor, limit) ==
    LET request_path == "/api/v3/brokerage/orders/historical/fills"
        q0 == ""
        q1 == IF order_id # None
                THEN _next_param(q0) \o "order_id=" \o order_id[1] ELSE q0
        q2 == IF product_id # None
                THEN _next_param(q1) \o "product_id=" \o product_id[1] ELSE q1
        q3 == IF start_date # None
                THEN _next_param(q2) \o "start_date=" \o strftime(start_date[1]) ELSE q2
        q4 == IF end_date # None
                THEN _next_param(q3) \o "end_date=" \o strftime(end_date[1]) ELSE q3
        q5 == IF cursor # None
                THEN _next_param(q4) \o "cursor=" \o cursor[1] ELSE q4
        q6 == IF limit # None
                THEN _next_param(q5) \o "limit=" \o PyStr(limit) ELSE q5
    IN  Prepared("GET", request_path, q6, "", None, "FillsPage")

list_fills(order_id, product_id, start_date, end_date, cursor, limit) ==
    LET request_path == "/api/v3/brokerage/orders/historical/fills"
        q0 == ""
        q1 == IF order_id # None
                THEN _next_param(q0) \o "order_id=" \o order_id[1] ELSE q0
        q2 == IF product_id # None
                THEN _next_param(q1) \o "product_id=" \o product_id[1] ELSE q1
        q3 == IF limit # None
                THEN _next_param(q2) \o "limit=" \o PyStr(limit) ELSE q2
        q4 == IF start_date # None
                THEN _next_param(q3) \o "start_date=" \o strftime(start_date[1]) ELSE q3
        q5 == IF end_date # None
                THEN _next_param(q4) \o "end_date=" \o strftime(end_date[1]) ELSE q4
        q6 == IF cursor # None
                THEN _next_param(q5) \o "cursor=" \o cursor[1] ELSE q5
    IN  Prepared("GET", request_path, q6, "", None, "FillsPage")

get_order(order_id) ==
    LET request_path == "/api/v3/brokerage/orders/historical/" \o order_id
    IN  Prepared("GET", request_path, "", "", None, "Order.get")

list_products(limit, offset, product_type) ==
    LET request_path == "/api/v3/brokerage/products"
        q0 == ""
        q1 == IF limit # None
                THEN _next_param(q0) \o "limit=" \o PyStr(limit) ELSE q0
        q2 == IF offset # None
                THEN _next_param(q1) \o "offset=" \o PyStr(offset) ELSE q1
        q3 == IF product_type # None
                THEN _next_param(q2) \o "product_type=" \o product_type[1] ELSE q2
    IN  Prepared("GET", request_path, q3, "", None, "ProductsPage")

get_product(product_id) ==
    LET request_path == "/api/v3/brokerage/products/" \o product_id
    IN  Prepared("GET", request_path, "", "", None, "Product")

get_product_candles(product_id, start_date, end_date, granularity) ==
    LET request_path == "/api/v3/brokerage/products/" \o product_id \o "/candles"
        q0 == ""
        q1 == _next_param(q0) \o "start=" \o IntToStr(datetime_timestamp(start_date))
        q2 == _next_param(q1) \o "end=" \o IntToStr(datetime_timestamp(end_date))
        q3 == _next_param(q2) \o "granularity=" \o granularity
    IN  Prepared("GET", request_path, q3, "", None, "CandlesPage")


-----------------------------------------------------------------------------
(* json.loads: a recursive-descent reading of the text.  Numbers are        *)
(* integers, and of the escapes only \" \\ and \/ are read; the bodies of   *)
(* this model use no others.                                                *)

\* the i-th character of s, "" past its end
Ch(s, i) == IF i >= 1 /\ i <= Len(s) THEN SubSeq(s, i, i) ELSE ""

IsWs(c) == c \in {" ", "\n", "\t", "\r"}

IsDigit(c) == c \in {"0", "1", "2", "3", "4", "5", "6", "7", "8", "9"}

DigitVal(c) == CHOOSE d \in 0..9 : SubSeq(Digits, d + 1, d + 1) = c

\* the text lit stands in s at i
LitAt(s, i, lit) == i + Len(lit) - 1 <= Len(s) /\ SubSeq(s, i, i + Len(lit) - 1) = lit

RECURSIVE SkipWs(_, _)
SkipWs(s, i) == IF IsWs(Ch(s, i)) THEN SkipWs(s, i + 1) ELSE i

Parsed(v, next) == [ok |-> TRUE, v |-> v, next |-> next]

ParseFail == [ok |-> FALSE, v |-> JNull, next |-> 0]

\* a dict of the items read: a repeated key keeps its place and takes the last value
DictOf(items) ==
    LET firsts == SelectSeq([i \in 1..Len(items) |-> i],
                            LAMBDA i : \A h \in 1..(i - 1) : items[h][1] # items[i][1])
    IN  JObj([n \in 1..Len(firsts) |->
                <<items[firsts[n]][1], Get(JObj(items), items[firsts[n]][1])>>])

\* the rest of a string whose opening quote is before i
RECURSIVE ParseStr(_, _, _)
ParseStr(s, i, acc) ==
    LET c == Ch(s, i)
    IN  IF c = "" THEN ParseFail
        ELSE IF c = "\"" THEN Parsed(acc, i + 1)
        ELSE IF c = "\\"
          THEN IF Ch(s, i + 1) \in {"\"", "\\", "/"}
                 THEN ParseStr(s, i + 2, acc \o Ch(s, i + 1))
                 ELSE ParseFail
        ELSE ParseStr(s, i + 1, acc \o c)

\* the digits from i on
RECURSIVE ParseDigits(_, _, _)
ParseDigits(s, i, acc) ==
    IF IsDigit(Ch(s, i)) THEN ParseDigits(s, i + 1, acc * 10 + DigitVal(Ch(s, i)))
    ELSE Parsed(acc, i)

RECURSIVE ParseValue(_, _)
RECURSIVE ParseElems(_, _, _)
RECURSIVE ParseMembers(_, _, _)

\* the elements of a list, i being where the next element starts
ParseElems(s, i, acc) ==
    LET r == ParseValue(s, i)
        j == SkipWs(s, r.next)
    IN  IF ~r.ok THEN ParseFail
        ELSE IF Ch(s, j) = "," THEN ParseElems(s, j + 1, Append(acc, r.v))
        ELSE IF Ch(s, j) = "]" THEN Parsed(JList(Append(acc, r.v)), j + 1)
        ELSE ParseFail

\* the members of an object, i being where the next key starts
ParseMembers(s, i, acc) ==
    LET k == IF Ch(s, i) = "\"" THEN ParseStr(s, i + 1, "") ELSE ParseFail
        c == SkipWs(s, k.next)
        r == IF k.ok /\ Ch(s, c) = ":" THEN ParseValue(s, c + 1) ELSE ParseFail
        j == SkipWs(s, r.next)
    IN  IF ~r.ok THEN ParseFail
        ELSE IF Ch(s, j) = ","
          THEN ParseMembers(s, SkipWs(s, j + 1), Append(acc, <<k.v, r.v>>))
        ELSE IF Ch(s, j) = "}" THEN Parsed(DictOf(Append(acc, <<k.v, r.v>>)), j + 1)
        ELSE ParseFail

\* the value that starts at or after i
ParseValue(s, i0) ==
    LET i == SkipWs(s, i0)
        c == Ch(s, i)
    IN  CASE c = "{" ->
               IF Ch(s, SkipWs(s, i + 1)) = "}"
                 THEN Parsed(JObj(<<>>), SkipWs(s, i + 1) + 1)
                 ELSE ParseMembers(s, SkipWs(s, i + 1), <<>>)
          [] c = "[" ->
               IF Ch(s, SkipWs(s, i + 1)) = "]"
                 THEN Parsed(JList(<<>>), SkipWs(s, i + 1) + 1)
                 ELSE ParseElems(s, i + 1, <<>>)
          [] c = "\"" ->
               LET r == ParseStr(s, i + 1, "")
               IN  IF r.ok THEN Parsed(JStr(r.v), r.next) ELSE ParseFail
          [] c = "-" ->
               LET r == ParseDigits(s, i + 1, 0)
               IN  IF r.next > i + 1 THEN Parsed(JInt(0 - r.v), r.next) ELSE ParseFail
          [] IsDigit(c) ->
               LET r == ParseDigits(s, i, 0)
               IN  Parsed(JInt(r.v), r.next)
          [] LitAt(s, i, "true") -> Parsed(JBool(TRUE), i + 4)
          [] LitAt(s, i, "false") -> Parsed(JBool(FALSE), i + 5)
          [] LitAt(s, i, "null") -> Parsed(JNull, i + 4)
          [] OTHER -> ParseFail

\* json.loads(text): the value, or ok = FALSE where json.loads raises
\* json.JSONDecodeError
JsonLoads(text) ==
    LET r == ParseValue(text, 1)
    IN  IF r.ok /\ SkipWs(text, r.next) = Len(text) + 1
          THEN [ok |-> TRUE, v |-> r.v]
          ELSE [ok |-> FALSE, v |-> JNull]


-----------------------------------------------------------------------------
(* models/fees.py and models/products.py: the entity classes *)

\* the parameters of __init__ that have no default, in order
Params(cls) ==
    CASE cls = "FeeTier" ->
           <<"pricing_tier", "usd_from", "usd_to", "taker_fee_rate", "maker_fee_rate">>
      [] cls = "GoodsAndServicesTax" -> <<"rate", "type">>
      [] cls = "MarginRate" -> <<"value">>
      [] cls = "TransactionsSummary" ->
           <<"total_volume", "total_fees", "fee_tier", "margin_rate",
             "goods_and_services_tax", "advanced_trade_only_volume",
             "advanced_trade_only_fees", "coinbase_pro_volume", "coinbase_pro_fees">>
      [] cls = "Product" ->
           <<"product_id", "price", "price_percentage_change_24h", "volume_24h",
             "volume_percentage_change_24h", "base_increment", "quote_increment",
             "quote_min_size", "quote_max_size", "base_min_size", "base_max_size",
             "base_name", "quote_name", "watched", "is_disabled", "new", "status",
             "cancel_only", "limit_only", "post_only", "trading_disabled",
             "auction_mode", "product_type", "quote_currency_id", "base_currency_id",
             "mid_market_price", "fcm_trading_session_details", "alias", "alias_to",
             "base_display_symbol", "quote_display_symbol">>
      [] cls = "ProductsPage" -> <<"products", "num_products">>
      [] cls = "Candle" -> <<"start", "low", "high", "open", "close", "volume">>
      [] cls = "CandlesPage" -> <<"candles">>
      [] cls = "Trade" ->
           <<"trade_id", "product_id", "price", "size", "time", "side", "bid", "ask">>
      [] cls = "TradesPage" -> <<"trades", "best_bid", "best_ask">>

\* the parameters of __init__ that have a default (each defaults to None)
Defaulted(cls) == IF cls = "TransactionsSummary" THEN <<"error">> ELSE <<>>

\* whether __init__ ends in **kwargs
HasKwargs(cls) ==
    cls \in {"Product", "ProductsPage", "Candle", "CandlesPage", "Trade", "TradesPage"}

\* what __init__ makes of a parameter: an object of a class ("one"), a list of
\* them ("many"), or the value as it is ("plain")
Nested(cls, p) ==
    CASE cls = "TransactionsSummary" /\ p = "fee_tier" -> [how |-> "one", cls |-> "FeeTier"]
      [] cls = "TransactionsSummary" /\ p = "margin_rate" ->
           [how |-> "one", cls |-> "MarginRate"]
      [] cls = "TransactionsSummary" /\ p = "goods_and_services_tax" ->
           [how |-> "one", cls |-> "GoodsAndServicesTax"]
      [] cls = "ProductsPage" /\ p = "products" -> [how |-> "many", cls |-> "Product"]
      [] cls = "CandlesPage" /\ p = "candles" -> [how |-> "many", cls |-> "Candle"]
      [] cls = "TradesPage" /\ p = "trades" -> [how |-> "many", cls |-> "Trade"]
      [] OTHER -> [how |-> "plain", cls |-> ""]

SeqToSet(q) == {q[i] : i \in 1..Len(q)}

Raise(exc) == [t |-> "raise", exc |-> exc]

\* what iterating a value yields: the elements of a list, the keys of a dict,
\* the characters of a str; anything else is not iterable
Iterable(x) == x.t \in {"list", "dict", "str"}

Iter(x) ==
    CASE x.t = "list" -> x.v
      [] x.t = "dict" -> [i \in 1..Len(x.v) |-> JStr(x.v[i][1])]
      [] x.t = "str"  -> [i \in 1..Len(x.v) |-> JStr(SubSeq(x.v, i, i))]

\* the keyword arguments no parameter takes, in order
Unexpected(cls, d) ==
    SelectSeq(d.v, LAMBDA it : it[1] \notin SeqToSet(Params(cls)) \cup SeqToSet(Defaulted(cls)))

\* cls(**d) with a parameter that gets no value bound to None
RECURSIVE Construct(_, _)
Construct_missing_as_none(cls, d) ==
    IF d.t # "dict" THEN Raise("TypeError")
    ELSE IF Len(Unexpected(cls, d)) > 0 /\ ~HasKwargs(cls) THEN Raise("TypeError")
    ELSE
      LET names == Params(cls) \o Defaulted(cls)
          arg(p) == IF HasKey(d, p) THEN Get(d, p) ELSE JNull
          attr(p) ==
              LET n == Nested(cls, p)
                  a == arg(p)
              IN  CASE n.how = "plain" -> a
                    [] n.how = "one" ->
                         IF a.t = "null" THEN JNull ELSE Construct(n.cls, a)
                    [] n.how = "many" ->
                         IF a.t = "null" THEN JNull
                         ELSE IF ~Iterable(a) THEN Raise("TypeError")
                         ELSE LET made == [i \in 1..Len(Iter(a)) |-> Construct(n.cls, Iter(a)[i])]
                              IN  IF \E i \in 1..Len(made) : made[i].t = "raise"
                                    THEN Raise("TypeError")
                                    ELSE JList(made)
          attrs == [i \in 1..Len(names) |-> <<names[i], attr(names[i])>>]
      IN  IF \E i \in 1..Len(attrs) : attrs[i][2].t = "raise" THEN Raise("TypeError")
          ELSE [t      |-> "entity",
                cls    |-> cls,
                attrs  |-> attrs,
                kwargs |-> IF HasKwargs(cls) THEN JObj(Unexpected(cls, d)) ELSE JNull]

\* cls(**d): Python binds the items of d to the parameters (TypeError when d
\* is no mapping, when a parameter without default gets no value, or when a
\* key names no parameter and there is no **kwargs), then __init__ runs
Construct(cls, d) ==
    IF d.t # "dict" THEN Raise("TypeError")
    ELSE IF \E p \in SeqToSet(Params(cls)) : ~HasKey(d, p) THEN Raise("TypeError")
    ELSE IF Len(Unexpected(cls, d)) > 0 /\ ~HasKwargs(cls) THEN Raise("TypeError")
    ELSE
      LET names == Params(cls) \o Defaulted(cls)
          arg(p) == IF HasKey(d, p) THEN Get(d, p) ELSE JNull
          attr(p) ==
              LET n == Nested(cls, p)
                  a == arg(p)
              IN  CASE n.how = "plain" -> a
                    [] n.how = "one" ->
                         IF a.t = "null" THEN JNull ELSE Construct(n.cls, a)
                    [] n.how = "many" ->
                         IF a.t = "null" THEN JNull
                         ELSE IF ~Iterable(a) THEN Raise("TypeError")
                         ELSE LET made == [i \in 1..Len(Iter(a)) |-> Construct(n.cls, Iter(a)[i])]
                              IN  IF \E i \in 1..Len(made) : made[i].t = "raise"
                                    THEN Raise("TypeError")
                                    ELSE JList(made)
          attrs == [i \in 1..Len(names) |-> <<names[i], attr(names[i])>>]
      IN  IF \E i \in 1..Len(attrs) : attrs[i][2].t = "raise" THEN Raise("TypeError")
          ELSE [t      |-> "entity",
                cls    |-> cls,
                attrs  |-> attrs,
                kwargs |-> IF HasKwargs(cls) THEN JObj(Unexpected(cls, d)) ELSE JNull]


-----------------------------------------------------------------------------
(* the response mappers *)

\* requests.Response.ok: raise_for_status() raises for 400 <= status < 600
ok(resp) == ~(400 <= resp.status_code /\ resp.status_code < 600)

\* CoinbaseAdvancedTradeAPIError.not_ok_response(response) of models/error.py:
\* the error carries the HTTP status and the parsed body
not_ok_response(resp) ==
    [t      |-> "raise",
     exc    |-> "CoinbaseAdvancedTradeAPIError",
     status |-> resp.status_code,
     body   |-> JsonLoads(resp.text)]

\* LoadAndConstruct with a text json.loads refuses taken for an empty object
LoadAndConstruct_empty_on_failure(cls, resp) ==
    LET loaded == JsonLoads(resp.text)
    IN  IF ~loaded.ok THEN Construct(cls, JObj(<<>>)) ELSE Construct(cls, loaded.v)

\* json.loads(response.text) followed by cls(**result)
LoadAndConstruct(cls, resp) ==
    LET loaded == JsonLoads(resp.text)
    IN  IF ~loaded.ok THEN Raise("JSONDecodeError") ELSE Construct(cls, loaded.v)

Product_from_response(resp) ==
    IF ~ok(resp) THEN not_ok_response(resp) ELSE LoadAndConstruct("Product", resp)

ProductsPage_from_response(resp) ==
    IF ~ok(resp) THEN not_ok_response(resp) ELSE LoadAndConstruct("ProductsPage", resp)

CandlesPage_from_response(resp) ==
    IF ~ok(resp) THEN not_ok_response(resp) ELSE LoadAndConstruct("CandlesPage", resp)

TradesPage_from_response(resp) ==
    IF ~ok(resp) THEN not_ok_response(resp) ELSE LoadAndConstruct("TradesPage", resp)

TransactionsSummary_from_response(resp) ==
    IF ~ok(resp)
      THEN LET error_result == JsonLoads(resp.text)
               nones == [i \in 1..Len(Params("TransactionsSummary")) |->
                           <<Params("TransactionsSummary")[i], JNull>>]
           IN  IF ~error_result.ok THEN Raise("JSONDecodeError")
               ELSE Construct("TransactionsSummary",
                              JObj(Append(nones, <<"error", error_result.v>>)))
      ELSE LoadAndConstruct("TransactionsSummary", resp)

\* what a for loop over a list attribute gets: list.__iter__() yields the
\* items in order; None has no __iter__
list___iter__(x) ==
    IF x.t = "list" THEN [t |-> "yielded", items |-> x.v] ELSE Raise("AttributeError")

ProductsPage___iter__(self) == list___iter__(Get(JObj(self.attrs), "products"))

CandlesPage___iter__(self) == list___iter__(Get(JObj(self.attrs), "candles"))

TradesPage___iter__(self) == list___iter__(Get(JObj(self.attrs), "trades"))

\* the classes that define __iter__
Pages == {"ProductsPage", "CandlesPage", "TradesPage"}

__iter__(self) ==
    CASE self.cls = "ProductsPage" -> ProductsPage___iter__(self)
      [] self.cls = "CandlesPage"  -> CandlesPage___iter__(self)
      [] self.cls = "TradesPage"   -> TradesPage___iter__(self)

\* the mappers whose source is models/products.py or models/fees.py
SrcMappers == {"Product", "ProductsPage", "CandlesPage", "TradesPage", "TransactionsSummary"}

\* the mappers of models/accounts.py and models/orders.py: the response is
\* handed over, and what they make of it is not followed
OtherMappers ==
    {"AccountsPage", "Account", "Order.create", "OrderBatchCancellation", "OrdersPage",
     "FillsPage", "Order.get"}

from_response_other(mapper, resp) ==
    [t |-> "mapped", by |-> mapper, status |-> resp.status_code]

from_response(mapper, resp) ==
    CASE mapper = "Product"             -> Product_from_response(resp)
      [] mapper = "ProductsPage"        -> ProductsPage_from_response(resp)
      [] mapper = "CandlesPage"         -> CandlesPage_from_response(resp)
      [] mapper = "TradesPage"          -> TradesPage_from_response(resp)
      [] mapper = "TransactionsSummary" -> TransactionsSummary_from_response(resp)
      [] OTHER                          -> from_response_other(mapper, resp)


-----------------------------------------------------------------------------
(* The arguments of the calls and the responses of the server *)

Opt(S) == {None} \cup {Some(v) : v \in S}

Credentials ==
    {[api_key |-> "Jk31IAjyWQEG3BfP", secret_key |-> "HUbLt2GsnPOTTkl0t2wkFWn4RrznDJRM"],
     [api_key |-> "hOOnWpN0x2zsu12i", secret_key |-> "86s3z4DLYrFCw4QonF54u4CdirrbBSnw"]}

ProductIdValues == {"ALGO-USD"}

IdValues == {"5fffa9e8"}

CursorValues == {"c9"}

DateValues ==
    {[year |-> 2023, month |-> 1, day |-> 25, hour |-> 0, minute |-> 0, second |-> 0]}

CandleDateValues ==
    DateValues \cup
        {[year |-> 2023, month |-> 1, day |-> 31, hour |-> 15, minute |-> 30, second |-> 9]}

\* the values of the enums SIDE, ORDER_TYPE, PRODUCT_TYPE and GRANULARITY
SIDE == {"BUY", "SELL"}

ORDER_TYPE == {"UNKNOWN_ORDER_TYPE", "MARKET", "LIMIT", "STOP", "STOP_LIMIT"}

PRODUCT_TYPE == {"SPOT"}

GRANULARITY ==
    {"UNKNOWN_GRANULARITY", "ONE_MINUTE", "FIVE_MINUTE", "FIFTEEN_MINUTE", "THIRTY_MINUTE",
     "ONE_HOUR", "TWO_HOUR", "SIX_HOUR", "ONE_DAY"}

OrderConfigurations ==
    {JObj(<< <<"market_market_ioc", JObj(<< <<"quote_size", JStr("1")>> >>)>> >>),
     JObj(<< <<"limit_limit_gtc",
               JObj(<< <<"limit_price", JStr(".19")>>, <<"base_size", JStr("10")>>,
                       <<"post_only", JBool(TRUE)>> >>)>> >>)}

\* the values of the enum STOP_DIRECTION
STOP_DIRECTION == {"UNKNOWN_STOP_DIRECTION", "STOP_DIRECTION_STOP_UP", "STOP_DIRECTION_STOP_DOWN"}

\* prices as callers give them as a str, sizes as they give them as an int
PriceValues == {JStr(".19")}

SizeValues == {JInt(5), JInt(10)}

\* a good-till-date in single digits, and one in double digits
CancelTimeValues ==
    {[year |-> 2023, month |-> 2, day |-> 3, hour |-> 4, minute |-> 5, second |-> 6],
     [year |-> 2024, month |-> 12, day |-> 31, hour |-> 23, minute |-> 59, second |-> 59]}

OrderIdLists == {<<>>, <<"a">>, <<"a", "b\"c">>}

Response(status_code, text) == [status_code |-> status_code, text |-> text]

\* the statuses the server answers with: success, and client and server errors
StatusCodes == {200, 201, 401, 500}

ErrorBody ==
    JObj(<< <<"error", JStr("unauthorized")>>, <<"message", JStr("invalid signature")>> >>)

\* a JSON object with every declared field of cls; n tells two of them apart
RECURSIVE Sample(_, _)
Sample(cls, n) ==
    JObj([i \in 1..Len(Params(cls)) |->
            LET p == Params(cls)[i]
                k == Nested(cls, p)
            IN  <<p, CASE k.how = "plain" -> JStr(IntToStr(n))
                       [] k.how = "one"   -> Sample(k.cls, n)
                       [] k.how = "many"  -> JList(<<Sample(k.cls, n), Sample(k.cls, n + 1)>>)>>])

\* d with the item k: v added at its end / with the value of k replaced / without k
WithItem(d, k, v) == JObj(Append(d.v, <<k, v>>))

Replaced(d, k, v) == JObj([i \in 1..Len(d.v) |-> IF d.v[i][1] = k THEN <<k, v>> ELSE d.v[i]])

Without(d, k) == JObj(SelectSeq(d.v, LAMBDA it : it[1] # k))

\* the parameters of cls that __init__ turns into objects
NestedParams(cls) ==
    {p \in SeqToSet(Params(cls)) : Nested(cls, p).how # "plain"}

\* success bodies with fields the classes do not declare: in the object
\* itself, and in an object nested in it
ExtraBodies(cls) ==
    {JsonDumps(WithItem(WithItem(Sample(cls, 1), "new_field", JStr("x")), "flags", JList(<<>>)))}
    \cup {JsonDumps(Replaced(Sample(cls, 1), p,
                             IF Nested(cls, p).how = "one"
                               THEN WithItem(Sample(Nested(cls, p).cls, 1), "new_field", JInt(7))
                               ELSE JList(<<WithItem(Sample(Nested(cls, p).cls, 1),
                                                     "new_field", JInt(7))>>)))
            : p \in NestedParams(cls)}

\* success bodies that lack one declared field
MissingBodies(cls) ==
    {JsonDumps(Without(Sample(cls, 1), Params(cls)[i])) : i \in 1..Len(Params(cls))}

\* success bodies in which a nested object, or the element of a nested
\* list, lacks one declared field; and those in which the second element of
\* a nested list alone lacks its last one
NestedMissingBodies(cls) ==
    UNION {{JsonDumps(Replaced(Sample(cls, 1), p,
                               IF Nested(cls, p).how = "one"
                                 THEN Without(Sample(Nested(cls, p).cls, 1), f)
                                 ELSE JList(<<Without(Sample(Nested(cls, p).cls, 1), f)>>)))
              : f \in SeqToSet(Params(Nested(cls, p).cls))}
           : p \in NestedParams(cls)}
    \cup {JsonDumps(Replaced(Sample(cls, 1), p,
                             JList(<<Sample(Nested(cls, p).cls, 1),
                                     Without(Sample(Nested(cls, p).cls, 2),
                                             Params(Nested(cls, p).cls)[
                                                 Len(Params(Nested(cls, p).cls))])>>)))
            : p \in {q \in NestedParams(cls) : Nested(cls, q).how = "many"}}

\* success bodies whose nested objects are null or, for a list, none
EmptyBodies(cls) ==
    {JsonDumps(Replaced(Sample(cls, 1), p, JNull)) : p \in NestedParams(cls)}
    \cup {JsonDumps(Replaced(Sample(cls, 1), p, JList(<<>>)))
            : p \in {q \in NestedParams(cls) : Nested(cls, q).how = "many"}}

\* texts json.loads refuses, the last a body cut short
MalformedBodies(cls) ==
    LET whole == JsonDumps(Sample(cls, 1))
    IN  {"", "<html>Bad Gateway</html>", "{\"error\": ", SubSeq(whole, 1, Len(whole) - 1)}

\* well-formed JSON that is no object
NonObjectBodies == {"[]", "null"}

Bodies(cls) ==
    {JsonDumps(ErrorBody), JsonDumps(Sample(cls, 1))}
    \cup ExtraBodies(cls) \cup MissingBodies(cls) \cup EmptyBodies(cls)
    \cup MalformedBodies(cls) \cup NonObjectBodies

\* what the server may answer a request whose response goes to mapper
Responses(mapper) ==
    IF mapper \in SrcMappers
      THEN {Response(st, b) : st \in StatusCodes, b \in Bodies(mapper)}
           \cup {Response(200, b) : b \in NestedMissingBodies(mapper)}
      ELSE {Response(200, "{}"), Response(401, JsonDumps(ErrorBody))}


-----------------------------------------------------------------------------
(* The state machine: one client, one call at a time *)

NoCall == [op |-> "", args |-> <<>>, mapper |-> ""]

NoSignIn == [clock |-> 0, method |-> "", request_path |-> "", body |-> ""]

NoRequest ==
    [method |-> "", url |-> "", request_path |-> "", query_params |-> "",
     headers |-> <<>>, json |-> None, sent_at |-> 0]

NoResponse == Response(0, "")

NoResult == [t |-> "none"]

NotIterated == [t |-> "none"]

Init ==
    /\ \E c \in Credentials : api_key = c.api_key /\ secret_key = c.secret_key
    /\ clock = ClockStart
    /\ pc = "idle"
    /\ call = NoCall
    /\ sign_in = NoSignIn
    /\ request = NoRequest
    /\ n_sent = 0
    /\ response = NoResponse
    /\ result = NoResult
    /\ iterated = NotIterated

\* time passes while the call prepares its request
Tick ==
    /\ pc \in {"idle", "built"}
    /\ clock < ClockStart + MaxTicks
    /\ clock' = clock + 1
    /\ UNCHANGED <<api_key, secret_key, pc, call, sign_in, request, n_sent, response, result, iterated>>

\* An operation runs up to its call of requests: it has its path, query and
\* payload, and _build_request_headers has read the clock and signed.
Begin(op, args, prep) ==
    /\ pc' = "built"
    /\ call' = [op |-> op, args |-> args, mapper |-> prep.mapper]
    /\ sign_in' = [clock        |-> clock,
                   method       |-> prep.sign.method,
                   request_path |-> prep.sign.request_path,
                   body         |-> prep.sign.body]
    /\ request' = [method       |-> prep.method,
                   url          |-> prep.url,
                   request_path |-> prep.request_path,
                   query_params |-> prep.query_params,
                   headers      |-> _build_request_headers(prep.sign.method,
                                                           prep.sign.request_path,
                                                           prep.sign.body),
                   json         |-> prep.json,
                   sent_at      |-> 0]
    /\ UNCHANGED <<api_key, secret_key, clock, n_sent, response, result, iterated>>

ListAccounts ==
    \E limit \in Opt({49, 100}), cursor \in Opt(CursorValues) :
        /\ pc = "idle"
        /\ Begin("list_accounts", [limit |-> limit, cursor |-> cursor],
              list_accounts(limit, cursor))

GetAccount ==
    \E account_id \in IdValues :
        /\ pc = "idle"
        /\ Begin("get_account", [account_id |-> account_id], get_account(account_id))

CreateOrder ==
    \E client_order_id \in IdValues, product_id \in ProductIdValues, side \in SIDE,
       order_configuration \in OrderConfigurations :
        /\ pc = "idle"
        /\ Begin("create_order",
              [client_order_id |-> client_order_id, product_id |-> product_id,
               side |-> side, order_configuration |-> order_configuration],
              create_order(client_order_id, product_id, side, order_configuration))

CreateBuyMarketOrder ==
    \E client_order_id \in IdValues, product_id \in ProductIdValues, quote_size \in SizeValues :
        /\ pc = "idle"
        /\ Begin("create_buy_market_order",
              [client_order_id |-> client_order_id, product_id |-> product_id,
               quote_size |-> quote_size],
              create_buy_market_order(client_order_id, product_id, quote_size))

CreateSellMarketOrder ==
    \E client_order_id \in IdValues, product_id \in ProductIdValues, base_size \in SizeValues :
        /\ pc = "idle"
        /\ Begin("create_sell_market_order",
              [client_order_id |-> client_order_id, product_id |-> product_id,
               base_size |-> base_size],
              create_sell_market_order(client_order_id, product_id, base_size))

CreateLimitOrder ==
    \E client_order_id \in IdValues, product_id \in ProductIdValues, side \in SIDE,
       limit_price \in PriceValues, base_size \in SizeValues,
       cancel_time \in Opt(CancelTimeValues), post_only \in Opt(BOOLEAN) :
        /\ pc = "idle"
        /\ Begin("create_limit_order",
              [client_order_id |-> client_order_id, product_id |-> product_id,
               side |-> side, limit_price |-> limit_price, base_size |-> base_size,
               cancel_time |-> cancel_time, post_only |-> post_only],
              create_limit_order(client_order_id, product_id, side, limit_price, base_size,
                                 cancel_time, post_only))

CreateStopLimitOrder ==
    \E client_order_id \in IdValues, product_id \in ProductIdValues, side \in SIDE,
       stop_price \in PriceValues, stop_direction \in STOP_DIRECTION,
       limit_price \in PriceValues, base_size \in SizeValues,
       cancel_time \in Opt(CancelTimeValues) :
        /\ pc = "idle"
        /\ Begin("create_stop_limit_order",
              [client_order_id |-> client_order_id, product_id |-> product_id,
               side |-> side, stop_price |-> stop_price, stop_direction |-> stop_direction,
               limit_price |-> limit_price, base_size |-> base_size,
               cancel_time |-> cancel_time],
              create_stop_limit_order(client_order_id, product_id, side, stop_price,
                                      stop_direction, limit_price, base_size, cancel_time))

CancelOrders ==
    \E order_ids \in OrderIdLists :
        /\ pc = "idle"
        /\ Begin("cancel_orders", [order_ids |-> order_ids], cancel_orders(order_ids))

ListOrders ==
    \E product_id \in Opt(ProductIdValues), order_status \in Opt({<<"OPEN", "FILLED">>}),
       limit \in Opt({999}), start_date \in Opt(DateValues), end_date \in Opt(DateValues),
       user_native_currency \in Opt({"USD"}), order_type \in Opt({"LIMIT"}),
       order_side \in Opt({"SELL"}), cursor \in Opt(CursorValues),
       product_type \in Opt(PRODUCT_TYPE) :
        /\ pc = "idle"
        /\ Begin("list_orders",
              [product_id |-> product_id, order_status |-> order_status, limit |-> limit,
               start_date |-> start_date, end_date |-> end_date,
               user_native_currency |-> user_native_currency, order_type |-> order_type,
               order_side |-> order_side, cursor |-> cursor, product_type |-> product_type],
              list_orders(product_id, order_status, limit, start_date, end_date,
                          user_native_currency, order_type, order_side, cursor, product_type))

ListFills ==
    \E order_id \in Opt(IdValues), product_id \in Opt(ProductIdValues),
       start_date \in Opt(DateValues), end_date \in Opt(DateValues),
       cursor \in Opt(CursorValues), limit \in Opt({100, 5}) :
        /\ pc = "idle"
        /\ Begin("list_fills",
              [order_id |-> order_id, product_id |-> product_id, start_date |-> start_date,
               end_date |-> end_date, cursor |-> cursor, limit |-> limit],
              list_fills(order_id, product_id, start_date, end_date, cursor, limit))

GetOrder ==
    \E order_id \in IdValues :
        /\ pc = "idle"
        /\ Begin("get_order", [order_id |-> order_id], get_order(order_id))

ListProducts ==
    \E limit \in Opt({5}), offset \in Opt({0, 10}), product_type \in Opt(PRODUCT_TYPE) :
        /\ pc = "idle"
        /\ Begin("list_products",
              [limit |-> limit, offset |-> offset, product_type |-> product_type],
              list_products(limit, offset, product_type))

GetProduct ==
    \E product_id \in ProductIdValues :
        /\ pc = "idle"
        /\ Begin("get_product", [product_id |-> product_id], get_product(product_id))

GetProductCandles ==
    \E product_id \in ProductIdValues, start_date \in CandleDateValues,
       end_date \in CandleDateValues, granularity \in {"ONE_DAY", "UNKNOWN_GRANULARITY"} :
        /\ pc = "idle"
        /\ Begin("get_product_candles",
              [product_id |-> product_id, start_date |-> start_date, end_date |-> end_date,
               granularity |-> granularity],
              get_product_candles(product_id, start_date, end_date, granularity))

\* requests.get / requests.post sends the request
Send ==
    /\ pc = "built"
    /\ pc' = "sent"
    /\ request' = [request EXCEPT !.sent_at = clock]
    /\ n_sent' = n_sent + 1
    /\ UNCHANGED <<api_key, secret_key, clock, call, sign_in, response, result, iterated>>

\* the server answers
Respond ==
    /\ pc = "sent"
    /\ \E r \in Responses(call.mapper) : response' = r
    /\ pc' = "responded"
    /\ UNCHANGED <<api_key, secret_key, clock, call, sign_in, request, n_sent, result, iterated>>

\* TransportError with the operation catching the exception and trying again
TransportError_retrying ==
    /\ pc = "sent"
    /\ pc' = "built"
    /\ UNCHANGED <<api_key, secret_key, clock, call, sign_in, request, n_sent, response,
                   result, iterated>>

\* requests raises (no connection, DNS, TLS): nothing in the operation
\* catches it
TransportError ==
    /\ pc = "sent"
    /\ result' = Raise("requests.exceptions.ConnectionError")
    /\ pc' = "done"
    /\ UNCHANGED <<api_key, secret_key, clock, call, sign_in, request, n_sent, response, iterated>>

\* the operation hands the response to its mapper and returns what it gives
Map ==
    /\ pc = "responded"
    /\ result' = from_response(call.mapper, response)
    /\ pc' = "done"
    /\ UNCHANGED <<api_key, secret_key, clock, call, sign_in, request, n_sent, response, iterated>>

\* a caller hands a response of its own to a mapper of models/products.py or
\* models/fees.py (no operation of the client uses TradesPage or
\* TransactionsSummary)
FromResponse ==
    /\ pc = "idle"
    /\ \E cls \in SrcMappers : \E r \in Responses(cls) :
          /\ call' = [op |-> "from_response", args |-> <<>>, mapper |-> cls]
          /\ response' = r
          /\ result' = from_response(cls, r)
    /\ pc' = "done"
    /\ UNCHANGED <<api_key, secret_key, clock, sign_in, request, n_sent, iterated>>

\* the caller iterates the page it was given (for x in page)
Iterate ==
    /\ pc = "done"
    /\ result.t = "entity"
    /\ result.cls \in Pages
    /\ iterated = NotIterated
    /\ iterated' = __iter__(result)
    /\ UNCHANGED <<api_key, secret_key, clock, pc, call, sign_in, request, n_sent, response,
                   result>>

\* the caller has the result; the next call starts afresh
Return ==
    /\ pc = "done"
    /\ pc' = "idle"
    /\ call' = NoCall
    /\ sign_in' = NoSignIn
    /\ request' = NoRequest
    /\ n_sent' = 0
    /\ response' = NoResponse
    /\ result' = NoResult
    /\ iterated' = NotIterated
    /\ UNCHANGED <<api_key, secret_key, clock>>

Next ==
    \/ Tick
    \/ ListAccounts
    \/ GetAccount
    \/ CreateBuyMarketOrder
    \/ CreateSellMarketOrder
    \/ CreateLimitOrder
    \/ CreateStopLimitOrder
    \/ CreateOrder
    \/ CancelOrders
    \/ ListOrders
    \/ ListFills
    \/ GetOrder
    \/ ListProducts
    \/ GetProduct
    \/ GetProductCandles
    \/ Send
    \/ Respond
    \/ TransportError
    \/ Map
    \/ FromResponse
    \/ Iterate
    \/ Return

Spec == Init /\ [][Next]_vars


-----------------------------------------------------------------------------
(* Reading a request back: what the claims are stated on *)

\* the request of a client call is on its way: requests has it, with the
\* headers, URL and payload the call is to keep until it returns
Issued == pc = "sent"

\* the timestamp _build_request_headers made of the clock it read
TimestampRead == IntToStr(sign_in.clock \div TicksPerSecond)

\* the message whose digest a signature is
MessageOf(signature) == signature[3]

\* how many times the character c stands in s
CountChar(s, c) == Cardinality({i \in 1..Len(s) : SubSeq(s, i, i) = c})

\* the place of the first c in s from i on, Len(s) + 1 when there is none
Find(s, c, i) ==
    LET at == {j \in i..Len(s) : SubSeq(s, j, j) = c}
    IN  IF at = {} THEN Len(s) + 1 ELSE CHOOSE j \in at : \A h \in at : j <= h

\* the parts of s between the separators c
RECURSIVE Split(_, _)
Split(s, c) ==
    LET i == Find(s, c, 1)
    IN  IF i > Len(s) THEN <<s>>
        ELSE <<SubSeq(s, 1, i - 1)>> \o Split(SubSeq(s, i + 1, Len(s)), c)

\* the URL after the base URL: its path and query string
PathAndQuery(url) == SubSeq(url, Len(base_url) + 1, Len(url))

\* the path of the URL, and its query string from the "?" on ("" when it has none)
PathOf(url) == SubSeq(PathAndQuery(url), 1, Find(PathAndQuery(url), "?", 1) - 1)

QueryOf(url) ==
    SubSeq(PathAndQuery(url), Find(PathAndQuery(url), "?", 1), Len(PathAndQuery(url)))

\* the names of the parameters of a query string, in its order
ParamNames(q) ==
    IF q = "" THEN <<>>
    ELSE LET parts == Split(SubSeq(q, 2, Len(q)), "&")
         IN  [i \in 1..Len(parts) |-> SubSeq(parts[i], 1, Find(parts[i], "=", 1) - 1)]

\* the operations that assemble a query string from optional parameters
QueryOps == {"list_accounts", "list_orders", "list_fills", "list_products"}

\* the operations that send a query string
QuerySendingOps == QueryOps \cup {"get_product_candles"}

\* the parameters of an operation in the order its def declares them
Declared(op) ==
    CASE op = "list_accounts" -> <<"limit", "cursor">>
      [] op = "list_orders" ->
           <<"product_id", "order_status", "limit", "start_date", "end_date",
             "user_native_currency", "order_type", "order_side", "cursor", "product_type">>
      [] op = "list_fills" ->
           <<"order_id", "product_id", "start_date", "end_date", "cursor", "limit">>
      [] op = "list_products" -> <<"limit", "offset", "product_type">>

\* the order convenience builders, which delegate to create_order
OrderBuilders ==
    {"create_buy_market_order", "create_sell_market_order", "create_limit_order",
     "create_stop_limit_order"}

\* the operations that POST a JSON payload
PostOps == {"create_order", "cancel_orders"} \cup OrderBuilders

\* the public operations of the client
ClientOps ==
    {"list_accounts", "get_account", "create_order", "cancel_orders", "list_orders",
     "list_fills", "get_order", "list_products", "get_product", "get_product_candles"}
    \cup OrderBuilders

\* the parameters of the current call that have a value (are not None)
Provided == {p \in DOMAIN call.args : call.args[p] # None}

\* the body requests sends for json=payload: json.dumps of it, and none without
requests_body(json) == IF json = None THEN None ELSE Some(JsonDumps(json[1]))


-----------------------------------------------------------------------------
(* The claims *)

\* C1: the signature in CB-ACCESS-SIGN is the HMAC-SHA256 hex digest, keyed
\* by the client's secret key, of timestamp + method + request_path + body
\* in that order with nothing between them, for the method, path and body
\* the operation gave _build_request_headers and the timestamp it read.
C1_SignatureIsHmacOfConcatenation ==
    Issued =>
        request.headers["CB-ACCESS-SIGN"] =
            HmacSha256Hex(secret_key,
                          TimestampRead \o sign_in.method \o sign_in.request_path
                          \o sign_in.body)

\* a POST with a body was signed at a two-digit timestamp and sent
C1_Witness ==
    /\ pc = "sent"
    /\ call.op = "create_order"
    /\ sign_in.body # ""
    /\ Len(TimestampRead) = 2

\* C2 as stated: the signed request_path of an operation that sends a query
\* string is the path-plus-query part of the requested URL.
C2_SignedPathIncludesQuery ==
    (Issued /\ call.op \in QuerySendingOps) =>
        sign_in.request_path = PathAndQuery(request.url)

\* C2 amended: the signed request_path is the path of the requested URL
\* without its query string; the URL is that path followed by the query.
C2_SignedPathExcludesQuery ==
    (Issued /\ call.op \in QuerySendingOps) =>
        /\ sign_in.request_path = PathOf(request.url)
        /\ PathAndQuery(request.url) = sign_in.request_path \o QueryOf(request.url)
        /\ MessageOf(request.headers["CB-ACCESS-SIGN"]) =
               TimestampRead \o "GET" \o PathOf(request.url)

\* list_orders was sent with a query string of two parameters
C2_Witness ==
    /\ pc = "sent"
    /\ call.op = "list_orders"
    /\ CountChar(QueryOf(request.url), "&") = 1
    /\ sign_in.request_path # PathAndQuery(request.url)

\* C3: a POST operation signs the serialized JSON of the payload it sends,
\* which is the payload made of its arguments; a GET operation signs the
\* empty string and sends no body.
C3_SignedBodyIsSentPayload ==
    Issued =>
        IF call.op \in PostOps
          THEN /\ request.method = "POST"
               /\ request.json # None
               /\ requests_body(request.json) = Some(sign_in.body)
               /\ JsonLoads(sign_in.body).ok
               /\ IF call.op = "cancel_orders"
                    THEN Keys(JsonLoads(sign_in.body).v) = <<"order_ids">>
                         /\ Get(JsonLoads(sign_in.body).v, "order_ids") =
                                JList([i \in 1..Len(call.args.order_ids) |->
                                         JStr(call.args.order_ids[i])])
                    ELSE Keys(JsonLoads(sign_in.body).v) =
                             <<"client_order_id", "product_id", "side", "order_configuration">>
                         /\ call.op = "create_order" =>
                              /\ Get(JsonLoads(sign_in.body).v, "order_configuration") =
                                     call.args.order_configuration
                              /\ Get(JsonLoads(sign_in.body).v, "side") = JStr(call.args.side)
          ELSE /\ request.method = "GET"
               /\ sign_in.body = ""
               /\ request.json = None
               /\ requests_body(request.json) = None

\* cancel_orders was sent with two order ids, one of them with a quote in it
C3_Witness ==
    /\ pc = "sent"
    /\ call.op = "cancel_orders"
    /\ Len(call.args.order_ids) = 2
    /\ sign_in.body = "{\"order_ids\": [\"a\", \"b\\\"c\"]}"

\* C4: a request carries exactly the four headers accept: application/json,
\* CB-ACCESS-KEY (the api key), CB-ACCESS-TIMESTAMP and CB-ACCESS-SIGN, and
\* CB-ACCESS-TIMESTAMP is the decimal string of the whole seconds of the one
\* clock read of the header build, the string the signed message starts with.
C4_FourHeadersOneTimestamp ==
    Issued =>
        /\ DOMAIN request.headers =
               {"accept", "CB-ACCESS-KEY", "CB-ACCESS-TIMESTAMP", "CB-ACCESS-SIGN"}
        /\ request.headers["accept"] = "application/json"
        /\ request.headers["CB-ACCESS-KEY"] = api_key
        /\ request.headers["CB-ACCESS-TIMESTAMP"] = TimestampRead
        /\ LitAt(MessageOf(request.headers["CB-ACCESS-SIGN"]), 1,
                 request.headers["CB-ACCESS-TIMESTAMP"] \o sign_in.method)

\* a request was sent a second later than its headers were built
C4_Witness ==
    /\ pc = "sent"
    /\ request.sent_at \div TicksPerSecond > sign_in.clock \div TicksPerSecond
    /\ request.headers["CB-ACCESS-TIMESTAMP"] = TimestampRead

\* C5 as stated: with no parameter provided the query string is empty, and
\* with N >= 1 provided it starts with "?" and has one "?" and N - 1 "&".
C5_QueryShape ==
    (Issued /\ call.op \in QueryOps) =>
        LET q == QueryOf(request.url)
            n == Cardinality(Provided)
        IN  /\ n = 0 => q = ""
            /\ n >= 1 => /\ Ch(q, 1) = "?"
                         /\ CountChar(q, "?") = 1
                         /\ CountChar(q, "&") = n - 1

ListFillsEmitted == <<"order_id", "product_id", "limit", "start_date", "end_date", "cursor">>

C7_EmittedIffProvided ==
    (Issued /\ call.op \in QueryOps) =>
        \A p \in DOMAIN call.args :
            (p \in SeqToSet(ParamNames(QueryOf(request.url)))) <=> (p \in Provided)


\* a mapper of models/products.py or models/fees.py has been given a
\* response and has returned or raised
Mapped == pc = "done" /\ call.mapper \in SrcMappers /\ response # NoResponse

Is2xx(resp) == 200 <= resp.status_code /\ resp.status_code < 300

\* C8 as stated: a response that is not 2xx and has a JSON object as body makes the
\* mapper raise the typed API error with the HTTP status and the parsed
\* body; no entity is returned.
C8_FailureRaisesApiError ==
    (Mapped /\ ~Is2xx(response) /\ JsonLoads(response.text).ok
       /\ JsonLoads(response.text).v.t = "dict") =>
        /\ result.t = "raise"
        /\ result.exc = "CoinbaseAdvancedTradeAPIError"
        /\ result.status = response.status_code
        /\ result.body = JsonLoads(response.text)

\* d has every declared field of cls, and so has every object nested in it
RECURSIVE Complete(_, _)
Complete(cls, d) ==
    /\ d.t = "dict"
    /\ \A p \in SeqToSet(Params(cls)) :
          /\ HasKey(d, p)
          /\ Nested(cls, p).how = "one" /\ Get(d, p).t # "null" =>
                 Complete(Nested(cls, p).cls, Get(d, p))
          /\ Nested(cls, p).how = "many" /\ Get(d, p).t # "null" =>
                 /\ Get(d, p).t = "list"
                 /\ \A i \in 1..Len(Get(d, p).v) : Complete(Nested(cls, p).cls, Get(d, p).v[i])

\* the attribute p of an entity
Attr(e, p) == Get(JObj(e.attrs), p)

\* the fields of d that cls does not declare
UnknownOf(cls, d) ==
    {i \in 1..Len(d.v) : d.v[i][1] \notin SeqToSet(Params(cls)) \cup SeqToSet(Defaulted(cls))}

\* d, or an object nested in it, has a field its class does not declare
RECURSIVE HasUnknown(_, _)
HasUnknown(cls, d) ==
    \/ UnknownOf(cls, d) # {}
    \/ \E p \in SeqToSet(Params(cls)) :
          \/ Nested(cls, p).how = "one" /\ Get(d, p).t # "null"
               /\ HasUnknown(Nested(cls, p).cls, Get(d, p))
          \/ Nested(cls, p).how = "many" /\ Get(d, p).t # "null"
               /\ \E i \in 1..Len(Get(d, p).v) : HasUnknown(Nested(cls, p).cls, Get(d, p).v[i])

\* e is an entity of cls that keeps in its kwargs every field of d that cls
\* does not declare, and so does every entity nested in it
RECURSIVE KeepsUnknown(_, _, _)
KeepsUnknown(cls, e, d) ==
    /\ e.t = "entity"
    /\ e.cls = cls
    /\ UnknownOf(cls, d) # {} =>
          /\ e.kwargs.t = "dict"
          /\ \A i \in UnknownOf(cls, d) :
                HasKey(e.kwargs, d.v[i][1]) /\ Get(e.kwargs, d.v[i][1]) = d.v[i][2]
    /\ \A p \in SeqToSet(Params(cls)) :
          /\ Nested(cls, p).how = "one" /\ Get(d, p).t # "null" =>
                 KeepsUnknown(Nested(cls, p).cls, Attr(e, p), Get(d, p))
          /\ Nested(cls, p).how = "many" /\ Get(d, p).t # "null" =>
                 /\ Attr(e, p).t = "list"
                 /\ Len(Attr(e, p).v) = Len(Get(d, p).v)
                 /\ \A i \in 1..Len(Get(d, p).v) :
                       KeepsUnknown(Nested(cls, p).cls, Attr(e, p).v[i], Get(d, p).v[i])

\* C9 as stated: a success response whose JSON object has every declared
\* field, and fields no class declares, gives an entity (nothing is raised)
\* that keeps each unknown field with its value in its catch-all map; the
\* same holds of the entities nested in it.
C9_UnknownFieldsKept ==
    (Mapped /\ Is2xx(response) /\ JsonLoads(response.text).ok
       /\ Complete(call.mapper, JsonLoads(response.text).v)
       /\ HasUnknown(call.mapper, JsonLoads(response.text).v)) =>
        KeepsUnknown(call.mapper, result, JsonLoads(response.text).v)

\* C10: a 2xx response whose body is not well-formed JSON makes the mapper
\* raise json.JSONDecodeError: an exception of a class of its own, which is
\* neither the API error, nor the transport's exception, nor the TypeError
\* of a failed construction, and no entity is returned.
C10_MalformedBodyRaisesDecodeError ==
    (Mapped /\ Is2xx(response) /\ response.text \in MalformedBodies(call.mapper)) =>
        /\ result.t = "raise"
        /\ result.exc = "JSONDecodeError"
        /\ result.exc \notin {"CoinbaseAdvancedTradeAPIError", "TypeError",
                              "requests.exceptions.ConnectionError"}

\* a mapper of each module was given a 200 response with a body cut short
C10_Witness ==
    /\ Mapped
    /\ response.status_code = 200
    /\ call.mapper \in {"TransactionsSummary", "ProductsPage"}
    /\ response.text \in MalformedBodies(call.mapper)
    /\ Len(response.text) > 20
    /\ result = Raise("JSONDecodeError")

\* the exception requests raised, as the caller gets it
TransportException == Raise("requests.exceptions.ConnectionError")

\* a step of a client call from x to y in which it issues a request, ends
\* (with a result or an exception), and returns to its caller
C11_Step ==
    /\ n_sent' > n_sent =>
          /\ n_sent = 0 /\ n_sent' = 1
          /\ call.op \in ClientOps
          /\ DOMAIN request.headers =
                 {"accept", "CB-ACCESS-KEY", "CB-ACCESS-TIMESTAMP", "CB-ACCESS-SIGN"}
          /\ request'.headers = request.headers
          /\ response = NoResponse /\ result = NoResult
    /\ (call.op \in ClientOps /\ result = NoResult /\ result' # NoResult) =>
          /\ n_sent = 1 /\ n_sent' = 1
          /\ \/ /\ response = NoResponse /\ response' = NoResponse
                /\ result' = TransportException
             \/ /\ response # NoResponse /\ response' = response
                /\ result' = from_response(call.mapper, response)
    /\ (call.op \in ClientOps /\ call' = NoCall) =>
          /\ n_sent = 1
          /\ result # NoResult
          /\ response = NoResponse <=> result = TransportException

\* C11: every public client call, the order convenience builders included,
\* issues exactly one outbound HTTP request, after its headers are built and
\* before its response mapper runs; when the transport raises, the caller
\* gets that exception as it is, no second request is issued and no mapper
\* has run.
C11_OneRequestPerCall == [][C11_Step]_vars

\* an order convenience builder ended with the exception of the transport,
\* having issued its one request
C11_Witness ==
    /\ pc = "done"
    /\ call.op = "create_stop_limit_order"
    /\ n_sent = 1
    /\ result = TransportException
    /\ response = NoResponse

\* the builders whose order may carry an end time
ExpiringOrderBuilders == {"create_limit_order", "create_stop_limit_order"}

\* the good-till-date and the good-till-canceled key of a builder
GtdKey(op) ==
    IF op = "create_limit_order" THEN "limit_limit_gtd" ELSE "stop_limit_stop_limit_gtd"

GtcKey(op) ==
    IF op = "create_limit_order" THEN "limit_limit_gtc" ELSE "stop_limit_stop_limit_gtc"

\* the number a string of decimal digits writes
RECURSIVE DecimalOf(_)
DecimalOf(s) ==
    IF Len(s) = 0 THEN 0
    ELSE DecimalOf(SubSeq(s, 1, Len(s) - 1)) * 10 + DigitVal(SubSeq(s, Len(s), Len(s)))

\* s has the shape YYYY-MM-DDTHH:MM:SSZ
IsEndTimeFormat(s) ==
    /\ Len(s) = 20
    /\ \A i \in {1, 2, 3, 4, 6, 7, 9, 10, 12, 13, 15, 16, 18, 19} : IsDigit(Ch(s, i))
    /\ Ch(s, 5) = "-" /\ Ch(s, 8) = "-" /\ Ch(s, 11) = "T"
    /\ Ch(s, 14) = ":" /\ Ch(s, 17) = ":" /\ Ch(s, 20) = "Z"

\* s, of that shape, writes the date and time d
WritesDateTime(s, d) ==
    /\ DecimalOf(SubSeq(s, 1, 4)) = d.year
    /\ DecimalOf(SubSeq(s, 6, 7)) = d.month
    /\ DecimalOf(SubSeq(s, 9, 10)) = d.day
    /\ DecimalOf(SubSeq(s, 12, 13)) = d.hour
    /\ DecimalOf(SubSeq(s, 15, 16)) = d.minute
    /\ DecimalOf(SubSeq(s, 18, 19)) = d.second

\* the order configuration in the payload create_order was given to send
SentOrderConfiguration == Get(request.json[1], "order_configuration")

\* C12: the order configuration create_limit_order and
\* create_stop_limit_order pass to create_order has exactly one key, the
\* good-till-date key (limit_limit_gtd / stop_limit_stop_limit_gtd) if and
\* only if cancel_time is supplied and the good-till-canceled key
\* (limit_limit_gtc / stop_limit_stop_limit_gtc) otherwise; the object under
\* it has end_time if and only if the key is the good-till-date one, and
\* end_time is cancel_time written as YYYY-MM-DDTHH:MM:SSZ.
C12_OneKeyByCancelTime ==
    (Issued /\ call.op \in ExpiringOrderBuilders) =>
        LET cfg   == SentOrderConfiguration
            key   == cfg.v[1][1]
            inner == cfg.v[1][2]
        IN  /\ cfg.t = "dict"
            /\ Len(cfg.v) = 1
            /\ key \in {GtdKey(call.op), GtcKey(call.op)}
            /\ key = GtdKey(call.op) <=> call.args.cancel_time # None
            /\ key = GtcKey(call.op) <=> call.args.cancel_time = None
            /\ inner.t = "dict"
            /\ HasKey(inner, "end_time") <=> key = GtdKey(call.op)
            /\ HasKey(inner, "end_time") =>
                  /\ Get(inner, "end_time").t = "str"
                  /\ IsEndTimeFormat(Get(inner, "end_time").v)
                  /\ WritesDateTime(Get(inner, "end_time").v, call.args.cancel_time[1])

\* a limit order with a cancel time of single-digit month, day and time was
\* sent under the good-till-date key
C12_Witness ==
    /\ pc = "sent"
    /\ call.op = "create_limit_order"
    /\ call.args.cancel_time # None
    /\ call.args.post_only = Some(FALSE)
    /\ Keys(SentOrderConfiguration) = <<"limit_limit_gtd">>
    /\ Get(Get(SentOrderConfiguration, "limit_limit_gtd"), "end_time") =
           JStr("2023-02-03T04:05:06Z")

\* the list field of a page class, and the class of its elements
ListField(cls) == CHOOSE p \in SeqToSet(Params(cls)) : Nested(cls, p).how = "many"

ElementClass(cls) == Nested(cls, ListField(cls)).cls

\* the elements of the list field of the response's object: those of the
\* list, none when the field is null
ResponseElements(cls, d) ==
    IF Get(d, ListField(cls)).t = "list" THEN Get(d, ListField(cls)).v ELSE <<>>

\* a page was built from a success response and the caller has iterated it
PageIterated ==
    /\ Mapped
    /\ Is2xx(response)
    /\ result.t = "entity"
    /\ result.cls \in Pages
    /\ iterated # NotIterated

\* C13: iterating a page (ProductsPage, CandlesPage, TradesPage) that
\* from_response built from a success response yields one entity per
\* element of the list field of the response, in the order of the response;
\* so it does when the list field is empty or null, where it yields nothing.
C13_IterationYieldsElementsInOrder ==
    PageIterated =>
        LET elems == ResponseElements(result.cls, JsonLoads(response.text).v)
        IN  /\ iterated.t = "yielded"
            /\ Len(iterated.items) = Len(elems)
            /\ \A i \in 1..Len(elems) :
                  iterated.items[i] = Construct(ElementClass(result.cls), elems[i])

\* the object d lacks a declared field of cls that has no default, or an
\* object nested in it, or an element of a list nested in it, lacks one of
\* its class
RECURSIVE LacksDeclared(_, _)
LacksDeclared(cls, d) ==
    /\ d.t = "dict"
    /\ \E p \in SeqToSet(Params(cls)) :
          \/ ~HasKey(d, p)
          \/ /\ HasKey(d, p)
             /\ Nested(cls, p).how = "one"
             /\ LacksDeclared(Nested(cls, p).cls, Get(d, p))
          \/ /\ HasKey(d, p)
             /\ Nested(cls, p).how = "many"
             /\ Get(d, p).t = "list"
             /\ \E i \in 1..Len(Get(d, p).v) :
                   LacksDeclared(Nested(cls, p).cls, Get(d, p).v[i])

\* a mapper was given a success response whose object lacks a declared field
MissingFieldMapped ==
    /\ Mapped
    /\ Is2xx(response)
    /\ LET loaded == JsonLoads(response.text)
       IN  loaded.ok /\ LacksDeclared(call.mapper, loaded.v)

\* C14: a success response whose JSON object lacks a declared field without
\* default of the entity (of the entity itself, of an entity nested in it,
\* or of an element of its list) makes from_response raise; no entity is
\* returned, so none with the missing field absent.
C14_MissingFieldRaises ==
    MissingFieldMapped =>
        /\ result.t = "raise"
        /\ result.exc = "TypeError"
        /\ result.t # "entity"

\* ProductsPage.from_response was given a 200 response whose second product
\* alone lacks a field, and raised
C14_Witness ==
    /\ MissingFieldMapped
    /\ response.status_code = 200
    /\ call.mapper = "ProductsPage"
    /\ HasKey(JsonLoads(response.text).v, "products")
    /\ Get(JsonLoads(response.text).v, "products").t = "list"
    /\ Len(Get(JsonLoads(response.text).v, "products").v) = 2
    /\ Complete("Product", Get(JsonLoads(response.text).v, "products").v[1])
    /\ ~HasKey(Get(JsonLoads(response.text).v, "products").v[2], "quote_display_symbol")
    /\ result = Raise("TypeError")

=============================================================================
